---- MODULE Spec2Model ----
(***************************************************************************)
(* Behavioural model of three view components of UT-Registration-Plus:     *)
(*   CalendarHeader   - responsive display-mode state machine              *)
(*   PopupCourseBlock - copy guard, copied indicator, click, settings      *)
(*   SortableList     - drag-to-reorder list                               *)
(* Each component owns its own state; each has its own specification.      *)
(***************************************************************************)
EXTENDS Integers, Sequences, FiniteSets, TLC

VARIABLES
    \* ---- CalendarHeader ----
    isDisplayingText,   \* useState: [isDisplayingPrimaryActionsText, isDisplayingSecondaryActionsText]
    observerText,       \* the values captured by the installed ResizeObserver callback
    containerWidth,     \* contentRect.width of the observed container, in half pixels
    settled,            \* environment: the container is no longer being resized
    leftStates,         \* display states left since the rounded width last changed
    lastObservation,    \* the latest callback run: <<state before, captured values, width>>
    \* ---- PopupCourseBlock: copy control ----
    now,                \* Date.now(), in ms
    lastCopyTime,       \* useRef<number>(0)
    isCopied,           \* useState<boolean>(false)
    copies,             \* the handleCopy invocations so far: [at, outcome, doneAt (of a resolved write)]
    revertTimers,       \* due times of the pending setTimeout(() => setIsCopied(false), 500)
    \* ---- SortableList ----
    draggables,         \* the draggables prop: the externally supplied sequence (of ids)
    items,              \* useState<T[]>(draggables)
    active,             \* useState<Active | null>(null): the id of the active item
    isDragging,         \* useState(false)
    syncPending,        \* the effect on [draggables] has not run yet for the current reference
    emitted,            \* the onChange calls (their arguments) made by the latest drag handler
    lastHandler,        \* the drag handler that ran last: "none", "start", "end" or "cancel"
    activeWasRemoved,   \* the last drag end found the dragged item no longer in items
    \* ---- PopupCourseBlock: click ----
    switchCalls,        \* the background.switchToCalendarTab calls made by handleClick
    windowClosed,       \* window.close() has been called
    closedBy,           \* the call whose handler called window.close(), or 0
    \* ---- PopupCourseBlock: settings ----
    optionsStore,       \* the persisted settings (OptionsStore)
    changeQueue,        \* change notifications emitted by the store and not yet delivered
    storeListeners,     \* the listeners registered with OptionsStore.listen
    mounted,            \* the block is mounted
    mountGen,           \* the number of mounts so far; identifies the mounted instance
    variant,            \* which PopupCourseBlock is mounted: "copy" or "dragHandle"
    cleanupHandles,     \* l1, l2 as captured by the effect's cleanup function
    enableCourseStatusChips,        \* useState<boolean>(false)
    enableTimeAndLocationInPopup,   \* useState<boolean>(false)
    initFetches,        \* the initSettings() calls in flight
    courseStatus,       \* course.status
    chipShown,          \* the rendered output contains the status chip
    chipsNotified,      \* the mounted instance has received an enableCourseStatusChips change
    lastDelivery,       \* where the latest notification found the block: "mounted", "unmounted" ("none" so far)
    updatedAfterUnmount \* a listener of an unmounted instance has been called

headerVars ==
    <<isDisplayingText, observerText, containerWidth, settled, leftStates, lastObservation>>

copyVars == <<now, lastCopyTime, isCopied, copies, revertTimers>>

listVars == <<draggables, items, active, isDragging, syncPending, emitted, lastHandler,
              activeWasRemoved>>

clickVars == <<switchCalls, windowClosed, closedBy>>

settingsVars ==
    <<optionsStore, changeQueue, storeListeners, mounted, mountGen, variant,
      cleanupHandles, enableCourseStatusChips, enableTimeAndLocationInPopup,
      initFetches, courseStatus, chipShown, chipsNotified, lastDelivery,
      updatedAfterUnmount>>

vars == <<headerVars, copyVars, listVars, clickVars, settingsVars>>

otherThanHeader == <<copyVars, listVars, clickVars, settingsVars>>
otherThanCopy == <<headerVars, listVars, clickVars, settingsVars>>
otherThanList == <<headerVars, copyVars, clickVars, settingsVars>>
otherThanClick == <<headerVars, copyVars, listVars, settingsVars>>
otherThanSettings == <<headerVars, copyVars, listVars, clickVars>>

(***************************************************************************)
(*                            CalendarHeader                               *)
(***************************************************************************)

SECONDARY_ACTIONS_WITH_TEXT_WIDTH == 274
PRIMARY_ACTION_WITH_TEXT_WIDTH == 405
PRIMARY_ACTION_WITHOUT_TEXT_WIDTH == 160

\* How far around each threshold the observed widths range.
WidthMargin == 1

DisplayText(p, s) ==
    [isDisplayingPrimaryActionsText |-> p, isDisplayingSecondaryActionsText |-> s]

\* Pixel widths the container takes: 0, the widths around the two thresholds,
\* and the widths of the specification's example sequence.
PixelWidths ==
    LET S == SECONDARY_ACTIONS_WITH_TEXT_WIDTH
        T == SECONDARY_ACTIONS_WITH_TEXT_WIDTH
             + (PRIMARY_ACTION_WITH_TEXT_WIDTH - PRIMARY_ACTION_WITHOUT_TEXT_WIDTH)
    IN  {0, 150, 200, 280, 300, 450}
        \cup ((S - WidthMargin) .. (S + WidthMargin))
        \cup ((T - WidthMargin) .. (T + WidthMargin))

\* contentRect.width is fractional; the model measures it in half pixels.
HalfPixelWidths ==
    {h \in UNION {{2 * w - 1, 2 * w, 2 * w + 1} : w \in PixelWidths} : h >= 0}

\* Math.round on a width given in half pixels: halves round up.
MathRound(h) == (h + 1) \div 2

\* The mutants of ResizeCallback used to check that the claims depend on it.
ResizeCallbackStrictPrimary(prim, sec, width) ==
    IF width < SECONDARY_ACTIONS_WITH_TEXT_WIDTH /\ prim /\ sec
    THEN <<DisplayText(FALSE, TRUE)>>
    ELSE IF sec /\ width - SECONDARY_ACTIONS_WITH_TEXT_WIDTH
                   > PRIMARY_ACTION_WITH_TEXT_WIDTH - PRIMARY_ACTION_WITHOUT_TEXT_WIDTH
    THEN <<DisplayText(TRUE, TRUE)>>
    ELSE IF width < SECONDARY_ACTIONS_WITH_TEXT_WIDTH /\ sec
    THEN <<DisplayText(FALSE, FALSE)>>
    ELSE IF width >= SECONDARY_ACTIONS_WITH_TEXT_WIDTH /\ ~sec
    THEN <<DisplayText(FALSE, TRUE)>>
    ELSE <<>>

ResizeCallbackSwappedFields(prim, sec, width) ==
    IF width < SECONDARY_ACTIONS_WITH_TEXT_WIDTH /\ prim /\ sec
    THEN <<DisplayText(TRUE, FALSE)>>
    ELSE IF sec /\ width - SECONDARY_ACTIONS_WITH_TEXT_WIDTH
                   >= PRIMARY_ACTION_WITH_TEXT_WIDTH - PRIMARY_ACTION_WITHOUT_TEXT_WIDTH
    THEN <<DisplayText(TRUE, TRUE)>>
    ELSE IF width < SECONDARY_ACTIONS_WITH_TEXT_WIDTH /\ sec
    THEN <<DisplayText(FALSE, FALSE)>>
    ELSE IF width >= SECONDARY_ACTIONS_WITH_TEXT_WIDTH /\ ~sec
    THEN <<DisplayText(FALSE, TRUE)>>
    ELSE <<>>

ResizeCallbackFlippedReturn(prim, sec, width) ==
    IF width < SECONDARY_ACTIONS_WITH_TEXT_WIDTH /\ prim /\ sec
    THEN <<DisplayText(FALSE, TRUE)>>
    ELSE IF sec /\ width - SECONDARY_ACTIONS_WITH_TEXT_WIDTH
                   >= PRIMARY_ACTION_WITH_TEXT_WIDTH - PRIMARY_ACTION_WITHOUT_TEXT_WIDTH
    THEN <<DisplayText(TRUE, TRUE)>>
    ELSE IF width < SECONDARY_ACTIONS_WITH_TEXT_WIDTH /\ sec
    THEN <<DisplayText(FALSE, FALSE)>>
    ELSE IF width < SECONDARY_ACTIONS_WITH_TEXT_WIDTH /\ ~sec
    THEN <<DisplayText(FALSE, TRUE)>>
    ELSE <<>>

\* The body of the ResizeObserver callback for a rounded width: the sequence
\* of setIsDisplayingText calls it makes (none or one), given the values of
\* isDisplayingPrimaryActionsText / isDisplayingSecondaryActionsText it captured.
ResizeCallback(prim, sec, width) ==
    IF width < SECONDARY_ACTIONS_WITH_TEXT_WIDTH /\ prim /\ sec
    THEN <<DisplayText(FALSE, TRUE)>>
    ELSE IF sec /\ width - SECONDARY_ACTIONS_WITH_TEXT_WIDTH
                   >= PRIMARY_ACTION_WITH_TEXT_WIDTH - PRIMARY_ACTION_WITHOUT_TEXT_WIDTH
    THEN <<DisplayText(TRUE, TRUE)>>
    ELSE IF width < SECONDARY_ACTIONS_WITH_TEXT_WIDTH /\ sec
    THEN <<DisplayText(FALSE, FALSE)>>
    ELSE IF width >= SECONDARY_ACTIONS_WITH_TEXT_WIDTH /\ ~sec
    THEN <<DisplayText(FALSE, TRUE)>>
    ELSE <<>>

\* The state after the callback's setIsDisplayingText calls are applied.
AfterCallback(current, captured, width) ==
    LET calls == ResizeCallback(captured.isDisplayingPrimaryActionsText,
                                captured.isDisplayingSecondaryActionsText, width)
    IN  IF calls = <<>> THEN current ELSE calls[Len(calls)]

HeaderInit ==
    /\ isDisplayingText = DisplayText(TRUE, TRUE)
    /\ observerText = DisplayText(TRUE, TRUE)
    /\ containerWidth = 0      \* nothing is laid out before the first resize
    /\ settled = FALSE
    /\ leftStates = {}
    /\ lastObservation = <<>>

\* Environment: the container is resized to h half pixels.
ContainerResize(h) ==
    /\ ~settled
    /\ h # containerWidth
    /\ containerWidth' = h
    /\ leftStates' = IF MathRound(h) = MathRound(containerWidth) THEN leftStates ELSE {}
    /\ UNCHANGED <<isDisplayingText, observerText, settled, lastObservation>>
    /\ UNCHANGED otherThanHeader

\* Environment: from now on the container keeps its width.
ContainerSettles ==
    /\ ~settled
    /\ settled' = TRUE
    /\ UNCHANGED <<isDisplayingText, observerText, containerWidth, leftStates, lastObservation>>
    /\ UNCHANGED otherThanHeader

\* The installed ResizeObserver delivers an entry with the container's width.
ObserverCallback ==
    /\ isDisplayingText' =
           AfterCallback(isDisplayingText, observerText, MathRound(containerWidth))
    /\ leftStates' = IF isDisplayingText' # isDisplayingText
                     THEN leftStates \cup {isDisplayingText}
                     ELSE leftStates
    /\ lastObservation' = <<isDisplayingText, observerText, MathRound(containerWidth)>>
    /\ UNCHANGED <<observerText, containerWidth, settled>>
    /\ UNCHANGED otherThanHeader

\* useEffect with deps [isDisplayingPrimaryActionsText, isDisplayingSecondaryActionsText]:
\* after a render in which they changed, the old observer is disconnected and a
\* new one is created whose callback captures the current values.
EffectRerun ==
    /\ observerText # isDisplayingText
    /\ observerText' = isDisplayingText
    /\ UNCHANGED <<isDisplayingText, containerWidth, settled, leftStates, lastObservation>>
    /\ UNCHANGED otherThanHeader

HeaderNext ==
    \/ \E h \in HalfPixelWidths : ContainerResize(h)
    \/ ContainerSettles
    \/ ObserverCallback
    \/ EffectRerun

(***************************************************************************)
(*                     PopupCourseBlock: copy control                      *)
(***************************************************************************)

COPY_GUARD_MS == 500
COPIED_REVERT_MS == 500

\* Date.now() when the block is mounted; any value past the guard window.
StartTime == 1000
\* The clock advances by at most TickMs at a time, up to StartTime + Horizon.
TickMs == 250
Horizon == 1000
\* The number of handleCopy invocations considered.
MaxCopies == 3

Min(a, b) == IF a <= b THEN a ELSE b

\* Line 90: the rapid-copy guard.
CopyIgnored(at, last) == at - last < COPY_GUARD_MS

\* Mutant of LastCopyTimeAfter: the guard is never armed.
LastCopyTimeNotRecorded(at, last) == last

\* Line 94: lastCopyTime.current after an invocation at `at` that passed the guard.
LastCopyTimeAfter(at, last) == at

\* The invocations whose clipboard write was called.
WroteClipboard(c) == c.outcome \in {"writing", "resolved", "rejected"}

CopyInit ==
    /\ now = StartTime
    /\ lastCopyTime = 0
    /\ isCopied = FALSE
    /\ copies = <<>>
    /\ revertTimers = <<>>

\* handleCopy up to its await: the guard, the ref update, the writeText call.
HandleCopy ==
    /\ Len(copies) < MaxCopies
    /\ IF CopyIgnored(now, lastCopyTime)
       THEN /\ copies' = Append(copies, [at |-> now, outcome |-> "ignored", doneAt |-> now])
            /\ UNCHANGED lastCopyTime
       ELSE /\ lastCopyTime' = LastCopyTimeAfter(now, lastCopyTime)
            /\ copies' = Append(copies, [at |-> now, outcome |-> "writing", doneAt |-> now])
    /\ UNCHANGED <<now, isCopied, revertTimers>>
    /\ UNCHANGED otherThanCopy

\* navigator.clipboard.writeText resolves: handleCopy continues after the await.
WriteResolves(i) ==
    /\ copies[i].outcome = "writing"
    /\ copies' = [copies EXCEPT ![i].outcome = "resolved", ![i].doneAt = now]
    /\ isCopied' = TRUE
    /\ revertTimers' = Append(revertTimers, now + COPIED_REVERT_MS)
    /\ UNCHANGED <<now, lastCopyTime>>
    /\ UNCHANGED otherThanCopy

\* navigator.clipboard.writeText rejects: handleCopy ends with the rejection.
WriteRejects(i) ==
    /\ copies[i].outcome = "writing"
    /\ copies' = [copies EXCEPT ![i].outcome = "rejected", ![i].doneAt = now]
    /\ UNCHANGED <<now, lastCopyTime, isCopied, revertTimers>>
    /\ UNCHANGED otherThanCopy

\* The oldest revert timer is due: () => setIsCopied(false).
RevertTimerFires ==
    /\ revertTimers # <<>>
    /\ Head(revertTimers) <= now
    /\ isCopied' = FALSE
    /\ revertTimers' = Tail(revertTimers)
    /\ UNCHANGED <<now, lastCopyTime, copies>>
    /\ UNCHANGED otherThanCopy

\* Time passes, but not past a timer that is due.
Tick ==
    /\ now < StartTime + Horizon
    /\ revertTimers # <<>> => Head(revertTimers) > now
    /\ now' = IF revertTimers # <<>>
              THEN Min(now + TickMs, Head(revertTimers))
              ELSE now + TickMs
    /\ UNCHANGED <<lastCopyTime, isCopied, copies, revertTimers>>
    /\ UNCHANGED otherThanCopy

CopyNext ==
    \/ HandleCopy
    \/ \E i \in 1..Len(copies) : WriteResolves(i)
    \/ \E i \in 1..Len(copies) : WriteRejects(i)
    \/ RevertTimerFires
    \/ Tick

(***************************************************************************)
(*                              SortableList                               *)
(***************************************************************************)

\* Items are identified by their ids 1..NumIds.
NumIds == 3
Ids == 1..NumIds

\* null (no active item, no drop target) and JavaScript's undefined.
NoItem == 0
Undefined == -1

\* The sequences of items with unique ids.
UniqueSeqs ==
    {q \in UNION {[1..n -> Ids] : n \in 0..NumIds} :
        \A a, b \in 1..Len(q) : a # b => q[a] # q[b]}

Max(a, b) == IF a >= b THEN a ELSE b

ItemIds(array) == {array[k] : k \in 1..Len(array)}

\* items.findIndex(({ id }) => id === x): a 0-based index, or -1.
FindIndex(array, x) ==
    IF \E k \in 1..Len(array) : array[k] = x
    THEN (CHOOSE k \in 1..Len(array) : array[k] = x /\ \A m \in 1..(k - 1) : array[m] # x) - 1
    ELSE -1

\* Array.prototype.splice's clamping of its start index for an array of length n.
SpliceStart(n, start) == IF start < 0 THEN Max(n + start, 0) ELSE Min(start, n)

\* Mutant of ArrayMove: the two items trade places.
ArraySwap(array, from, to) ==
    IF from \in 0..(Len(array) - 1) /\ to \in 0..(Len(array) - 1)
    THEN [array EXCEPT ![from + 1] = array[to + 1], ![to + 1] = array[from + 1]]
    ELSE array

\* Mutant of ArrayMove: the moved item is inserted but not removed.
ArrayMoveKeepsSource(array, from, to) ==
    LET n       == Len(array)
        target  == IF to < 0 THEN n + to ELSE to
        cut     == SpliceStart(n, from)
        moved   == IF cut < n THEN array[cut + 1] ELSE Undefined
        at      == SpliceStart(n, target)
    IN  SubSeq(array, 1, at) \o <<moved>> \o SubSeq(array, at + 1, n)

\* @dnd-kit/sortable arrayMove(array, from, to):
\*   newArray = array.slice();
\*   newArray.splice(to < 0 ? newArray.length + to : to, 0, newArray.splice(from, 1)[0]);
\* The insertion index is computed before the removal.
ArrayMove(array, from, to) ==
    LET n       == Len(array)
        target  == IF to < 0 THEN n + to ELSE to
        cut     == SpliceStart(n, from)
        moved   == IF cut < n THEN array[cut + 1] ELSE Undefined
        rest    == IF cut < n
                   THEN SubSeq(array, 1, cut) \o SubSeq(array, cut + 2, n)
                   ELSE array
        at      == SpliceStart(Len(rest), target)
    IN  SubSeq(rest, 1, at) \o <<moved>> \o SubSeq(rest, at + 1, Len(rest))

ListInit ==
    /\ draggables = [k \in 1..NumIds |-> k]
    /\ items = draggables
    /\ active = NoItem
    /\ isDragging = FALSE
    /\ syncPending = FALSE
    /\ emitted = <<>>
    /\ lastHandler = "none"
    /\ activeWasRemoved = FALSE

\* The sequences the parent supplies next: the same items again (a new
\* reference), one item removed, one item added at the end, or two neighbours
\* exchanged. Every sequence of UniqueSeqs is reached by repeating these.
ExternalEdits(q) ==
    {q}
    \cup {SubSeq(q, 1, k - 1) \o SubSeq(q, k + 1, Len(q)) : k \in 1..Len(q)}
    \cup {Append(q, x) : x \in Ids \ ItemIds(q)}
    \cup {[q EXCEPT ![k] = q[k + 1], ![k + 1] = q[k]] : k \in 1..(Len(q) - 1)}

\* The parent renders the list with a new draggables reference.
ExternalUpdate(q) ==
    /\ q \in ExternalEdits(draggables)
    /\ draggables' = q
    /\ syncPending' = TRUE
    /\ UNCHANGED <<items, active, isDragging, emitted, lastHandler, activeWasRemoved>>
    /\ UNCHANGED otherThanList

\* useEffect(() => setItems(draggables), [draggables]).
SyncEffect ==
    /\ syncPending
    /\ items' = draggables
    /\ syncPending' = FALSE
    /\ UNCHANGED <<draggables, active, isDragging, emitted, lastHandler, activeWasRemoved>>
    /\ UNCHANGED otherThanList

\* onDragStart for the rendered item a.
DragStart(a) ==
    /\ ~isDragging
    /\ a \in ItemIds(items)
    /\ isDragging' = TRUE
    /\ active' = a
    /\ emitted' = <<>>
    /\ lastHandler' = "start"
    /\ activeWasRemoved' = FALSE
    /\ UNCHANGED <<draggables, items, syncPending>>
    /\ UNCHANGED otherThanList

\* onDragEnd with drop target `over` (a rendered item, or null); the caller of
\* onChange either keeps its sequence or supplies the reordered one.
DragEnd(over, callerUpdates) ==
    /\ isDragging
    /\ over \in ItemIds(items) \cup {NoItem}
    /\ isDragging' = FALSE
    /\ active' = NoItem
    /\ lastHandler' = "end"
    /\ activeWasRemoved' = (active \notin ItemIds(items))
    /\ IF over # NoItem /\ active # over
       THEN LET activeIndex    == FindIndex(items, active)
                overIndex      == FindIndex(items, over)
                reorderedItems == ArrayMove(items, activeIndex, overIndex)
            IN  /\ items' = reorderedItems
                /\ emitted' = <<reorderedItems>>
                /\ IF callerUpdates
                   THEN draggables' = reorderedItems /\ syncPending' = TRUE
                   ELSE UNCHANGED <<draggables, syncPending>>
       ELSE /\ callerUpdates = FALSE
            /\ emitted' = <<>>
            /\ UNCHANGED <<draggables, items, syncPending>>
    /\ UNCHANGED otherThanList

\* Mutant of DragCancel: setActive(null) is missing.
DragCancelKeepsActive ==
    /\ isDragging
    /\ isDragging' = FALSE
    /\ emitted' = <<>>
    /\ lastHandler' = "cancel"
    /\ activeWasRemoved' = FALSE
    /\ UNCHANGED <<draggables, items, syncPending, active>>
    /\ UNCHANGED otherThanList

\* onDragCancel.
DragCancel ==
    /\ isDragging
    /\ isDragging' = FALSE
    /\ active' = NoItem
    /\ emitted' = <<>>
    /\ lastHandler' = "cancel"
    /\ activeWasRemoved' = FALSE
    /\ UNCHANGED <<draggables, items, syncPending>>
    /\ UNCHANGED otherThanList

ListNext ==
    \/ \E q \in ExternalEdits(draggables) : ExternalUpdate(q)
    \/ SyncEffect
    \/ \E a \in Ids : DragStart(a)
    \/ \E over \in Ids \cup {NoItem}, callerUpdates \in BOOLEAN : DragEnd(over, callerUpdates)
    \/ DragCancel

(***************************************************************************)
(*                        PopupCourseBlock: click                          *)
(***************************************************************************)

\* The courses shown in the popup, by uniqueId; one block per course.
NumCourses == 2
UniqueIds == 1..NumCourses
\* The number of clicks considered.
MaxClicks == 3

\* Mutant of ContinuesAfterAwait: the close also runs after a rejection.
ContinuesAfterSettle(outcome) == outcome \in {"resolved", "rejected"}

\* `await background.switchToCalendarTab(...)`: the statements after the await
\* run when the promise is fulfilled; a rejection ends handleClick.
ContinuesAfterAwait(outcome) == outcome = "resolved"

ClickInit ==
    /\ switchCalls = <<>>
    /\ windowClosed = FALSE
    /\ closedBy = 0

\* handleClick on the block of course u, up to its await.
HandleClick(u) ==
    /\ ~windowClosed
    /\ Len(switchCalls) < MaxClicks
    /\ switchCalls' = Append(switchCalls, [uniqueId |-> u, state |-> "pending"])
    /\ UNCHANGED <<windowClosed, closedBy>>
    /\ UNCHANGED otherThanClick

\* The switchToCalendarTab call i settles; handleClick continues after its await.
SwitchSettles(i, outcome) ==
    /\ ~windowClosed
    /\ switchCalls[i].state = "pending"
    /\ switchCalls' = [switchCalls EXCEPT ![i].state = outcome]
    /\ IF ContinuesAfterAwait(outcome)
       THEN windowClosed' = TRUE /\ closedBy' = i
       ELSE UNCHANGED <<windowClosed, closedBy>>
    /\ UNCHANGED otherThanClick

ClickNext ==
    \/ \E u \in UniqueIds : HandleClick(u)
    \/ \E i \in 1..Len(switchCalls), outcome \in {"resolved", "rejected"} :
          SwitchSettles(i, outcome)

(***************************************************************************)
(*                       PopupCourseBlock: settings                        *)
(***************************************************************************)

\* The number of mounts and of undelivered notifications considered.
MaxMounts == 2
MaxQueue == 2

SettingKeys == {"enableCourseStatusChips", "enableTimeAndLocationInPopup"}
Settings == [SettingKeys -> BOOLEAN]

\* Status of a course (Status.OPEN is the default).
Statuses == {"OPEN", "CLOSED", "WAITLISTED", "CANCELLED"}

\* The keys each variant of the block listens to.
ListenedKeys(v) ==
    IF v = "copy" THEN {"enableCourseStatusChips", "enableTimeAndLocationInPopup"}
    ELSE {"enableCourseStatusChips"}

\* OptionsStore.listen(key, callback) for the instance gen: the handle it returns.
Listen(key, gen) == [key |-> key, gen |-> gen]

\* Mutant of CleanupRemoves: the cleanup forgets l2.
CleanupRemovesFirstOnly(handles) ==
    {l \in handles : l.key = "enableCourseStatusChips"}

\* The effect's cleanup: OptionsStore.removeListener(l1); OptionsStore.removeListener(l2).
CleanupRemoves(handles) == handles

\* Mutant of ChipVisible: the setting is not consulted.
ChipVisibleAlways(chips, status) == status # "OPEN"

\* {enableCourseStatusChips && course.status !== Status.OPEN && (<div>...)}
ChipVisible(chips, status) == chips /\ status # "OPEN"

\* A fetch whose instance is unmounted stays in flight (nothing cancels it),
\* but what it reads is never used: the model no longer tracks its value.
Orphaned(f) == [f EXCEPT !.variant = "copy", !.value = [k \in SettingKeys |-> FALSE]]

SettingsInit ==
    /\ optionsStore = [k \in SettingKeys |-> FALSE]
    /\ changeQueue = <<>>
    /\ storeListeners = {}
    /\ mounted = FALSE
    /\ mountGen = 0
    /\ variant = "copy"
    /\ cleanupHandles = {}
    /\ enableCourseStatusChips = FALSE
    /\ enableTimeAndLocationInPopup = FALSE
    /\ initFetches = {}
    /\ courseStatus = "OPEN"
    /\ chipShown = FALSE
    /\ chipsNotified = FALSE
    /\ lastDelivery = "none"
    /\ updatedAfterUnmount = FALSE

\* First render and useEffect of a block of variant v for a course of status
\* st: initSettings() is called, the listeners are registered, the cleanup
\* captures their handles.
Mount(v, st) ==
    /\ ~mounted
    /\ mountGen < MaxMounts
    /\ mounted' = TRUE
    /\ mountGen' = mountGen + 1
    /\ variant' = v
    /\ enableCourseStatusChips' = FALSE
    /\ enableTimeAndLocationInPopup' = FALSE
    /\ initFetches' = initFetches \cup {[gen |-> mountGen + 1, variant |-> v, read |-> FALSE,
                                         value |-> [k \in SettingKeys |-> FALSE]]}
    /\ LET handles == {Listen(k, mountGen + 1) : k \in ListenedKeys(v)}
       IN  /\ storeListeners' = storeListeners \cup handles
           /\ cleanupHandles' = handles
    /\ courseStatus' = st
    /\ chipShown' = ChipVisible(FALSE, st)
    /\ chipsNotified' = FALSE
    /\ UNCHANGED <<optionsStore, changeQueue, lastDelivery, updatedAfterUnmount>>
    /\ UNCHANGED otherThanSettings

\* The block is unmounted: the effect's cleanup runs, the instance's state is gone.
Unmount ==
    /\ mounted
    /\ mounted' = FALSE
    /\ storeListeners' = storeListeners \ CleanupRemoves(cleanupHandles)
    /\ cleanupHandles' = {}
    /\ enableCourseStatusChips' = FALSE
    /\ enableTimeAndLocationInPopup' = FALSE
    /\ chipShown' = FALSE
    /\ chipsNotified' = FALSE
    /\ variant' = "copy"           \* no block, no props: back to the initial values
    /\ courseStatus' = "OPEN"
    /\ initFetches' = {Orphaned(f) : f \in initFetches}
    /\ UNCHANGED <<optionsStore, changeQueue, mountGen, lastDelivery, updatedAfterUnmount>>
    /\ UNCHANGED otherThanSettings

\* initSettings(): the store's values are read.
FetchReads(f) ==
    /\ f \in initFetches
    /\ ~f.read
    /\ initFetches' = (initFetches \ {f})
           \cup {IF mounted /\ f.gen = mountGen
                 THEN [f EXCEPT !.read = TRUE, !.value = optionsStore]
                 ELSE [f EXCEPT !.read = TRUE]}
    /\ UNCHANGED <<optionsStore, changeQueue, storeListeners, mounted, mountGen, variant,
                   cleanupHandles, enableCourseStatusChips, enableTimeAndLocationInPopup,
                   courseStatus, chipShown, chipsNotified, lastDelivery, updatedAfterUnmount>>
    /\ UNCHANGED otherThanSettings

\* initSettings() resolves: the instance that called it sets its state; the
\* state updates of an instance that is no longer mounted are dropped.
FetchResolves(f) ==
    /\ f \in initFetches
    /\ f.read
    /\ initFetches' = initFetches \ {f}
    /\ IF mounted /\ f.gen = mountGen
       THEN /\ enableCourseStatusChips' = f.value["enableCourseStatusChips"]
            /\ enableTimeAndLocationInPopup' =
                   IF f.variant = "copy" THEN f.value["enableTimeAndLocationInPopup"]
                   ELSE enableTimeAndLocationInPopup
            /\ chipShown' = ChipVisible(f.value["enableCourseStatusChips"], courseStatus)
       ELSE UNCHANGED <<enableCourseStatusChips, enableTimeAndLocationInPopup, chipShown>>
    /\ UNCHANGED <<optionsStore, changeQueue, storeListeners, mounted, mountGen, variant,
                   cleanupHandles, courseStatus, chipsNotified, lastDelivery,
                   updatedAfterUnmount>>
    /\ UNCHANGED otherThanSettings

\* A setting is changed in the store, which emits a change notification.
StoreChange(key) ==
    /\ Len(changeQueue) < MaxQueue
    /\ optionsStore' = [optionsStore EXCEPT ![key] = ~optionsStore[key]]
    /\ changeQueue' = Append(changeQueue, [key |-> key, newValue |-> ~optionsStore[key]])
    /\ UNCHANGED <<storeListeners, mounted, mountGen, variant, cleanupHandles,
                   enableCourseStatusChips, enableTimeAndLocationInPopup, initFetches,
                   courseStatus, chipShown, chipsNotified, lastDelivery, updatedAfterUnmount>>
    /\ UNCHANGED otherThanSettings

\* The oldest notification is delivered to the listeners registered for its key:
\* async ({ newValue }) => setEnable...(newValue).
DeliverChange ==
    /\ changeQueue # <<>>
    /\ LET n      == Head(changeQueue)
           called == {l \in storeListeners : l.key = n.key}
           live   == {l \in called : mounted /\ l.gen = mountGen}
       IN  /\ changeQueue' = Tail(changeQueue)
           /\ enableCourseStatusChips' =
                  IF live # {} /\ n.key = "enableCourseStatusChips"
                  THEN n.newValue ELSE enableCourseStatusChips
           /\ enableTimeAndLocationInPopup' =
                  IF live # {} /\ n.key = "enableTimeAndLocationInPopup"
                  THEN n.newValue ELSE enableTimeAndLocationInPopup
           /\ chipsNotified' =
                  (chipsNotified \/ (live # {} /\ n.key = "enableCourseStatusChips"))
           /\ updatedAfterUnmount' = (updatedAfterUnmount \/ called # live)
    /\ chipShown' = (mounted /\ ChipVisible(enableCourseStatusChips', courseStatus))
    /\ lastDelivery' = IF mounted THEN "mounted" ELSE "unmounted"
    /\ UNCHANGED <<optionsStore, storeListeners, mounted, mountGen, variant, cleanupHandles,
                   initFetches, courseStatus>>
    /\ UNCHANGED otherThanSettings

SettingsNext ==
    \/ \E v \in {"copy", "dragHandle"}, st \in Statuses : Mount(v, st)
    \/ Unmount
    \/ \E f \in initFetches : FetchReads(f)
    \/ \E f \in initFetches : FetchResolves(f)
    \/ \E key \in SettingKeys : StoreChange(key)
    \/ DeliverChange

(***************************************************************************)
(*                            Specifications                               *)
(***************************************************************************)

Init ==
    /\ HeaderInit
    /\ CopyInit
    /\ ListInit
    /\ ClickInit
    /\ SettingsInit

\* React runs a pending effect; a live observer keeps delivering observations.
HeaderSpec ==
    Init /\ [][HeaderNext]_vars /\ WF_vars(EffectRerun) /\ WF_vars(ObserverCallback)

CopySpec == Init /\ [][CopyNext]_vars

ListSpec == Init /\ [][ListNext]_vars

ClickSpec == Init /\ [][ClickNext]_vars

SettingsSpec == Init /\ [][SettingsNext]_vars

(***************************************************************************)
(*                                Claims                                   *)
(***************************************************************************)

(* ------------------------- CalendarHeader claims ----------------------- *)

\* The rule table of the display-mode state machine, first match wins.
FirstMatchingRule(s, w) ==
    LET p == s.isDisplayingPrimaryActionsText
        q == s.isDisplayingSecondaryActionsText
    IN  CASE p /\ q /\ w < 274             -> DisplayText(FALSE, TRUE)
          [] ~(p /\ q /\ w < 274) /\ q /\ w - 274 >= 405 - 160
                                           -> DisplayText(TRUE, TRUE)
          [] ~(p /\ q /\ w < 274) /\ ~(q /\ w - 274 >= 405 - 160) /\ q /\ w < 274
                                           -> DisplayText(FALSE, FALSE)
          [] ~q /\ w >= 274                -> DisplayText(FALSE, TRUE)
          [] OTHER                         -> s

C2_NeverPrimaryWithoutSecondary ==
    ~(isDisplayingText.isDisplayingPrimaryActionsText
      /\ ~isDisplayingText.isDisplayingSecondaryActionsText)

\* C2 witness: observations have narrowed the header and widened it again.
C2_Witness ==
    /\ isDisplayingText = DisplayText(TRUE, TRUE)
    /\ DisplayText(FALSE, TRUE) \in leftStates

\* No further observation of the current width changes the display mode.
HeaderStable ==
    /\ observerText = isDisplayingText
    /\ AfterCallback(isDisplayingText, observerText, MathRound(containerWidth))
         = isDisplayingText

\* C3: while the same (rounded) width is observed repeatedly the display mode
\* never returns to a state it has left, and once the width no longer changes
\* it reaches a state that every further observation leaves unchanged.
C3_NoOscillation ==
    /\ [](isDisplayingText \notin leftStates)
    /\ [](settled => <>[]HeaderStable)

\* C3 witness: at the boundary width 273 the header has gone through both
\* narrowing steps and rests.
C3_Witness ==
    /\ settled
    /\ MathRound(containerWidth) = SECONDARY_ACTIONS_WITH_TEXT_WIDTH - 1
    /\ HeaderStable
    /\ Cardinality(leftStates) = 2

(* ------------------- PopupCourseBlock copy-control claims -------------- *)

\* Invocations i and j, i the earlier one, less than 500 ms apart.
RapidPair(i, j) ==
    /\ i \in 1..Len(copies)
    /\ j \in 1..Len(copies)
    /\ i < j
    /\ copies[j].at - copies[i].at < 500

\* C4 as stated: of any two copy invocations less than 500 ms apart the
\* second is a no-op that does not call the clipboard write.
C4_AnyRapidPair ==
    \A i, j \in 1..Len(copies) :
        RapidPair(i, j) => copies[j].outcome = "ignored"

\* C4 as amended: of any two copy invocations less than 500 ms apart of which
\* the first called the clipboard write, the second is a no-op (no write, no
\* queued write, no error), whatever the latency or outcome of the first write.
C4_GuardAfterWrite ==
    \A i, j \in 1..Len(copies) :
        (RapidPair(i, j) /\ WroteClipboard(copies[i])) => copies[j].outcome = "ignored"

\* C4 witness: a second invocation was ignored while the first one's write,
\* made less than 500 ms earlier, is still in flight.
C4_Witness ==
    \E i, j \in 1..Len(copies) :
        /\ RapidPair(i, j)
        /\ copies[i].outcome = "writing"
        /\ copies[j].outcome = "ignored"
        /\ copies[j].at > copies[i].at

\* The time at which the latest successful copy resolved (resolved # {}).
LatestSuccess ==
    LET resolved == {copies[i].doneAt : i \in {k \in 1..Len(copies) : copies[k].outcome = "resolved"}}
    IN  CHOOSE t \in resolved : \A u \in resolved : u <= t

\* C5: after a successful copy resolved at t the indicator isCopied is true
\* until t + 500 ms and false afterwards; no earlier copy's revert timer turns
\* it off before 500 ms have passed since the latest successful copy.
C5_CopiedWindow ==
    (\E i \in 1..Len(copies) : copies[i].outcome = "resolved")
        => /\ now < LatestSuccess + 500 => isCopied
           /\ now > LatestSuccess + 500 => ~isCopied

(* --------------------------- SortableList claims ----------------------- *)

\* The 0-based index of the item with id x in q, or -1.
IndexOfId(q, x) ==
    IF x \in ItemIds(q) THEN (CHOOSE k \in 1..Len(q) : q[k] = x) - 1 ELSE -1

\* Move, not swap: remove the item at index i, insert it at position j.
RemoveThenInsert(q, i, j) ==
    LET removed == [k \in 1..(Len(q) - 1) |-> IF k <= i THEN q[k] ELSE q[k + 1]]
    IN  [k \in 1..Len(q) |->
            IF k < j + 1 THEN removed[k]
            ELSE IF k = j + 1 THEN q[i + 1]
            ELSE removed[k - 1]]

\* C6: ending a drag of the item at index i over the item at index j # i sets
\* the internal sequence to the one obtained by removing the item at i and
\* inserting it at position j, and calls onChange exactly once with it; ending
\* a drag with no target or over the active item itself calls onChange zero
\* times and leaves the internal sequence unchanged.
C6_DragEndMoves ==
    [][\A over \in Ids \cup {NoItem}, callerUpdates \in BOOLEAN :
         DragEnd(over, callerUpdates) =>
            LET i == IndexOfId(items, active)
                j == IndexOfId(items, over)
            IN  /\ (i >= 0 /\ j >= 0 /\ i # j) =>
                      /\ items' = RemoveThenInsert(items, i, j)
                      /\ emitted' = <<RemoveThenInsert(items, i, j)>>
                /\ (over = NoItem \/ over = active) =>
                      /\ items' = items
                      /\ emitted' = <<>>]_vars

\* C6 witness: the first of three items was dropped over the last one.
C6_Witness ==
    /\ lastHandler = "end"
    /\ Len(items) = 3
    /\ emitted = <<items>>
    /\ items[3] < items[1]
    /\ items[1] < items[2]

\* C7: a drag cancel leaves the internal sequence as it was, calls onChange
\* zero times and leaves the list out of dragging mode with no active item;
\* the drag start before it changes neither the sequence nor calls onChange.
C7_DragCancelFrame ==
    [][/\ DragCancel =>
            (items' = items /\ emitted' = <<>> /\ ~isDragging' /\ active' = NoItem)
       /\ (\E a \in Ids : DragStart(a)) =>
            (items' = items /\ emitted' = <<>>)]_vars

\* C7 witness: a drag was started on a reordered list and then cancelled.
C7_Witness ==
    /\ lastHandler = "cancel"
    /\ ~isDragging
    /\ active = NoItem
    /\ emitted = <<>>
    /\ items # draggables
    /\ ~syncPending

(* ----------------------- PopupCourseBlock click claims ----------------- *)

\* C9 as stated: the window is closed only after the switchToCalendarTab call
\* of a click has completed: never while the call of a click is still pending,
\* and not if it failed.
C9_ClosedAfterEveryCall ==
    windowClosed => \A i \in 1..Len(switchCalls) : switchCalls[i].state = "resolved"

\* C9 as amended: the window is closed only by the handler of a click whose
\* own switchToCalendarTab call has completed successfully; a handler whose
\* call is pending or has failed has not closed it.
C9_ClosedByCompletedCall ==
    /\ windowClosed =>
          /\ closedBy \in 1..Len(switchCalls)
          /\ switchCalls[closedBy].state = "resolved"
    /\ ~windowClosed =>
          /\ closedBy = 0
          /\ \A i \in 1..Len(switchCalls) : switchCalls[i].state # "resolved"

\* C9 witness: one click's call failed, a later click's call closed the
\* window, a third call is still pending.
C9_Witness ==
    /\ windowClosed
    /\ \E i, j \in 1..Len(switchCalls) :
          /\ switchCalls[i].state = "rejected"
          /\ switchCalls[j].state = "pending"
          /\ switchCalls[closedBy].uniqueId # switchCalls[i].uniqueId

(* ---------------------- PopupCourseBlock settings claims --------------- *)

\* C8: every mount registers its settings listeners and the matching unmount
\* removes exactly those: no listener of an unmounted instance is registered,
\* the mounted instance has one listener per setting it shows, and no
\* notification has called a listener of an unmounted instance.
C8_ListenersPaired ==
    /\ \A l \in storeListeners : mounted /\ l.gen = mountGen
    /\ mounted =>
          {l.key : l \in storeListeners} =
              IF variant = "copy"
              THEN {"enableCourseStatusChips", "enableTimeAndLocationInPopup"}
              ELSE {"enableCourseStatusChips"}
    /\ ~mounted => storeListeners = {}
    /\ ~updatedAfterUnmount

\* C8 witness: after the second unmount a notification was delivered.
C8_Witness ==
    /\ ~mounted
    /\ mountGen = 2
    /\ lastDelivery = "unmounted"
    /\ changeQueue = <<>>

\* The mounted instance's initSettings() call has not resolved yet.
InitialFetchPending == mounted /\ \E f \in initFetches : f.gen = mountGen

\* C10 as stated: the status chip is shown iff the block's flag
\* enableCourseStatusChips is true and the status is not OPEN; it is hidden
\* for every status before the initial settings fetch resolves.
C10_ChipHiddenUntilFetch ==
    /\ chipShown <=> (enableCourseStatusChips /\ courseStatus # "OPEN")
    /\ InitialFetchPending => ~chipShown

\* C10 as amended: the status chip is shown iff the block's flag is true and
\* the status is not OPEN; before the initial settings fetch resolves it is
\* hidden for every status unless a change notification for
\* enableCourseStatusChips has been delivered to the block.
C10_ChipIffFlagAndNotOpen ==
    /\ chipShown <=> (enableCourseStatusChips /\ courseStatus # "OPEN")
    /\ (InitialFetchPending /\ ~chipsNotified) => ~chipShown

\* C10 witness: the fetch has resolved with the setting on and the chip of a
\* closed course is shown.
C10_Witness ==
    /\ mounted
    /\ ~InitialFetchPending
    /\ ~chipsNotified
    /\ courseStatus = "CLOSED"
    /\ chipShown

\* C11: while a block is mounted, once its initial settings fetch has resolved
\* and every change notification emitted so far has been delivered, each local
\* flag the block keeps equals the store's current value.
C11_SettingsCurrent ==
    (mounted /\ ~InitialFetchPending /\ changeQueue = <<>>) =>
        /\ enableCourseStatusChips = optionsStore["enableCourseStatusChips"]
        /\ variant = "copy" =>
              enableTimeAndLocationInPopup = optionsStore["enableTimeAndLocationInPopup"]

(* --------------------- SortableList: source of truth ------------------- *)

\* C12: whenever no drag is in progress (and the effect that follows a new
\* draggables reference has run), the internal item sequence equals the most
\* recently supplied external sequence, whether or not the caller of onChange
\* supplied a new sequence in response.
C12_ExternalIsSourceOfTruth ==
    (~isDragging /\ ~syncPending) => items = draggables

(* --------------------- SortableList: pure permutation ------------------ *)

\* p holds exactly the items of q: same length, nothing added, dropped or
\* duplicated.
SameItems(p, q) ==
    /\ Len(p) = Len(q)
    /\ ItemIds(p) = ItemIds(q)
    /\ \A a, b \in 1..Len(p) : a # b => p[a] # p[b]

\* C13: every sequence a drag end passes to onChange and every internal
\* sequence it sets holds exactly the items of the internal sequence just
\* before the drop, for any drop target and also when the external sequence
\* was replaced while the drag was in progress.
C13_PurePermutation ==
    [][\A over \in Ids \cup {NoItem}, callerUpdates \in BOOLEAN :
         DragEnd(over, callerUpdates) =>
            /\ SameItems(items', items)
            /\ \A k \in 1..Len(emitted') : SameItems(emitted'[k], items)]_vars

\* C13 witness: the dragged item was removed from the external sequence while
\* the drag was in progress, and the drop reordered the remaining items.
C13_Witness ==
    /\ lastHandler = "end"
    /\ activeWasRemoved
    /\ emitted = <<items>>
    /\ Len(items) = 2

(* ----------------------- PopupCourseBlock: copy failure ---------------- *)

\* Invocation j was made after the write of invocation i had rejected, less
\* than 500 ms after invocation i, and no other invocation called the
\* clipboard write in the 500 ms before j.
AfterFailedOnly(i, j) ==
    /\ RapidPair(i, j)
    /\ copies[i].outcome = "rejected"
    /\ copies[j].at > copies[i].doneAt
    /\ \A k \in 1..(j - 1) :
          (k # i /\ WroteClipboard(copies[k])) => copies[j].at - copies[k].at >= 500

\* C14: a rejected clipboard write leaves the copy state unchanged: it does
\* not set the copied indicator, schedules no revert timer, and does not arm
\* the rapid-copy guard, so an invocation within 500 ms of the failed one
\* still attempts the clipboard write.
C14_FailureLeavesCopyState ==
    /\ Len(revertTimers) <= Cardinality({k \in 1..Len(copies) : copies[k].outcome = "resolved"})
    /\ (\A k \in 1..Len(copies) : copies[k].outcome # "resolved") => ~isCopied
    /\ \A i, j \in 1..Len(copies) :
          AfterFailedOnly(i, j) => WroteClipboard(copies[j])

====
